---- MODULE Spec2Model ----
(***************************************************************************)
(* Model of backend/src/handler/api/post.rs: the three handlers post_post, *)
(* get_post and delete_post running as concurrent requests against one     *)
(* relational store.  A write handler works inside a storage transaction   *)
(* whose effects become visible to the other requests at commit; get_post  *)
(* reads the committed store with separate queries and no transaction.     *)
(***************************************************************************)
EXTENDS Integers, Sequences, FiniteSets, TLC

\* ------------------------------------------------------------------ bounds

\* Number of post ids a behaviour may allocate (Uuid::new_v4 never repeats).
MaxPosts == 2
\* Longest file list of an ordinary create request.
MaxFiles == 2
\* Number of reactions the environment may add.
MaxReactions == 1

\* ------------------------------------------------------- program constants

\* Number of values of the u8 that carries an attachment's order (idx as u8).
OrderRange == 256

Procs == {"p1", "p2"}
\* The post ids of ordinary workloads.
OrdinaryIds == 1 .. MaxPosts
\* All post ids: a workload of concurrent replies needs one more, for the
\* post the others reply to.
PostIds == 1 .. (MaxPosts + 1)

\* Option<T>: None, Some(x).
None == << >>
Some(x) == << x >>
IsSome(o) == o # << >>
Unwrap(o) == o[1]

\* enum Visibility of the request and response bodies (camelCase on the wire).
WireVisibility == {"public", "home", "followers", "directMessage"}
\* sea_orm_active_enums::Visibility, the stored vocabulary.
StorageVisibility == {"Public", "Home", "Followers", "DirectMessage"}

\* A mapper that sends two wire values to one storage value.
ToStorageVisibility_Collapsed(v) ==
    CASE v = "public" -> "Public"
      [] v = "home" -> "Home"
      [] v = "followers" -> "Home"
      [] v = "directMessage" -> "DirectMessage"

\* The match of post_post: wire vocabulary to storage vocabulary.
ToStorageVisibility(v) ==
    CASE v = "public" -> "Public"
      [] v = "home" -> "Home"
      [] v = "followers" -> "Followers"
      [] v = "directMessage" -> "DirectMessage"

\* The match of get_post: storage vocabulary to wire vocabulary.
ToWireVisibility(v) ==
    CASE v = "Public" -> "public"
      [] v = "Home" -> "home"
      [] v = "Followers" -> "followers"
      [] v = "DirectMessage" -> "directMessage"

\* A URI without the id.
PostUri_NoId(id) == [scheme |-> "https", host |-> "CONFIG.domain", path |-> "/ap/post/", id |-> 0]

\* format!("https://{}/ap/post/{}", CONFIG.domain, id)
PostUri(id) == [scheme |-> "https", host |-> "CONFIG.domain", path |-> "/ap/post/", id |-> id]

\* Url::parse / str::parse::<Url>: an absolute URL has a scheme.
ParseUrl(s) == IF s.scheme \in {"http", "https"} THEN Some(s) ELSE None

\* Mime::from_str / str::parse::<Mime>: type "/" subtype.
ValidMimeStrings == {"image/png", "image/webp"}
ParseMime(s) == IF s \in ValidMimeStrings THEN Some(s) ELSE None

\* ------------------------------------------------------------ local files

\* The local_file table: files uploaded before any request of this model.
\* The handlers only read it.
LocalFileIds == 1 .. (OrderRange + 3)
\* A file id that names no row of local_file.
MissingFileIds == {0}
\* Two files whose stored media type and URL are text that does not parse.
OddMimeFile == OrderRange + 2
OddUrlFile == OrderRange + 3

LocalFile(f) ==
    [id |-> f,
     media_type |-> IF f = OddMimeFile THEN "not a mime" ELSE "image/png",
     url |-> [scheme |-> IF f = OddUrlFile THEN "" ELSE "https",
              host |-> "CONFIG.domain", path |-> "/file/", id |-> f],
     alt |-> None]

\* local_file::Entity::find_by_id(id).one(&tx)
FindLocalFile(f) == IF f \in LocalFileIds THEN Some(LocalFile(f)) ELSE None

\* --------------------------------------------------------------- requests

\* idx as u8: the position of a file in the request, cast to the order column.
AsU8(idx) == idx % OrderRange

\* A set as a sequence, in some order.
RECURSIVE SetToSeq(_)
SetToSeq(S) ==
    IF S = {} THEN << >>
    ELSE LET x == CHOOSE x \in S : TRUE IN <<x>> \o SetToSeq(S \ {x})

\* Sequences over S of length at most n without a repeated element.
DistinctSeqs(S, n) ==
    {s \in UNION {[1..k -> S] : k \in 0..n} :
       \A i, j \in DOMAIN s : i # j => s[i] # s[j]}

\* File lists of ordinary requests: existing files 1 and 2 and the missing
\* file, in every order and at every position.
ShortFileLists == DistinctSeqs({1, 2} \cup MissingFileIds, MaxFiles)

\* File lists that fill the order column exactly and that exceed it by one.
WideFileLists ==
    {[i \in 1..n |-> i] : n \in {OrderRange, OrderRange + 1}}
    \cup {<<2, 1>>}

\* PostPostReq
CreateReq(reply, text, title, vis, sens, files) ==
    [reply_id |-> reply, text |-> text, title |-> title, visibility |-> vis,
     is_sensitive |-> sens, files |-> files]

\* The workloads a behaviour is checked under: the connections that send
\* create, read and delete requests, the ids the creates may draw, the ids
\* the reads and deletes name, the bodies of the create requests, and whether
\* other handlers store reactions meanwhile.
CoreLoad ==
    [creators |-> Procs, readers |-> Procs, deleters |-> Procs,
     ids |-> OrdinaryIds, targets |-> OrdinaryIds,
     creates |-> {CreateReq(r, "reply", None, "followers", FALSE, << >>) :
                    r \in {None} \cup {Some(i) : i \in OrdinaryIds}}
                 \cup {CreateReq(None, "files", Some("title"), "home", TRUE, fl) :
                         fl \in {<<2, 1>>, <<1>> \o SetToSeq(MissingFileIds)}},
     reacting |-> FALSE]

FilesLoad ==
    [creators |-> {"p1"}, readers |-> {"p2"}, deleters |-> {"p2"},
     ids |-> OrdinaryIds, targets |-> OrdinaryIds,
     creates |-> {CreateReq(None, "files", Some("title"), "home", TRUE, fl) :
                    fl \in ShortFileLists},
     reacting |-> FALSE]

VisibilityLoad ==
    [creators |-> {"p1"}, readers |-> Procs, deleters |-> {"p2"},
     ids |-> OrdinaryIds, targets |-> OrdinaryIds,
     creates |-> {CreateReq(None, "hello", None, v, FALSE, <<1>>) :
                    v \in WireVisibility},
     reacting |-> FALSE]

WideLoad ==
    [creators |-> {"p1"}, readers |-> {"p1"}, deleters |-> {"p1"},
     ids |-> OrdinaryIds, targets |-> OrdinaryIds,
     creates |-> {CreateReq(None, "wide", None, "public", FALSE, fl) :
                    fl \in WideFileLists},
     reacting |-> FALSE]

ReactionLoad ==
    [creators |-> {"p1"}, readers |-> {"p2"}, deleters |-> {"p1"},
     ids |-> OrdinaryIds, targets |-> OrdinaryIds,
     creates |-> {CreateReq(None, "hello", None, "public", FALSE, <<1>>)},
     reacting |-> TRUE]

\* Replies to the first post from both connections; reads and deletes name
\* the first post only.
RepliesLoad ==
    [creators |-> Procs, readers |-> {"p1"}, deleters |-> {"p2"},
     ids |-> PostIds, targets |-> {1},
     creates |-> {CreateReq(None, "root", None, "public", FALSE, << >>),
                  CreateReq(Some(1), "reply", None, "public", FALSE, <<1>>)},
     reacting |-> FALSE]

\* Posts with attachments whose media type or URL does not parse, among
\* attachments that do.
OddLoad ==
    [creators |-> {"p1"}, readers |-> {"p2"}, deleters |-> {"p2"},
     ids |-> OrdinaryIds, targets |-> OrdinaryIds,
     creates |-> {CreateReq(None, "odd", None, "public", FALSE, fl) :
                    fl \in {<<2, OddMimeFile, 1>>, <<OddUrlFile, 1>>,
                            <<OddMimeFile>>, <<1, 2>>}},
     reacting |-> FALSE]

\* ------------------------------------------------------------------ state

VARIABLES
    posts,          \* committed rows of table post
    remote_files,   \* committed attachment rows (post_id, order, file)
    reactions,      \* committed rows of table reaction
    nextId,         \* the next fresh post id
    nextReaction,   \* the next fresh reaction id
    pc,             \* each request's position in its handler
    req,            \* each request's input
    tx,             \* each request's storage transaction
    loc,            \* each handler's local variables
    res,            \* each request's result
    dispatched,     \* per activity kind and post id: the dispatch attempts
    hist,           \* per post id: its fate, and while it is open or stored
                    \* the request that created it
    load            \* the name of the behaviour's workload (never changes)

vars == <<posts, remote_files, reactions, nextId, nextReaction, pc, req, tx,
          loc, res, dispatched, hist, load>>

ActivityKinds == {"Create", "Delete"}

NoReq == [kind |-> "none"]
NoTx == [state |-> "none", posts |-> {}, files |-> {}, del |-> {}]
NoLoc == [post |-> None, idx |-> 0, user |-> None, files |-> << >>]
NoRes == [status |-> "none", msg |-> "", body |-> None]

Init0 ==
    /\ posts = {}
    /\ remote_files = {}
    /\ reactions = {}
    /\ nextId = 1
    /\ nextReaction = 1
    /\ pc = [p \in Procs |-> "idle"]
    /\ req = [p \in Procs |-> NoReq]
    /\ tx = [p \in Procs |-> NoTx]
    /\ loc = [p \in Procs |-> NoLoc]
    /\ res = [p \in Procs |-> NoRes]
    /\ hist = [i \in PostIds |-> [state |-> "unused", req |-> None]]
    /\ dispatched = [k \in ActivityKinds, i \in PostIds |-> 0]

Init == Init0 /\ load = "core"
InitFiles == Init0 /\ load = "files"
InitVisibility == Init0 /\ load = "visibility"
InitWide == Init0 /\ load = "wide"
InitReaction == Init0 /\ load = "reaction"
InitReplies == Init0 /\ load = "replies"
InitOdd == Init0 /\ load = "odd"

Workload ==
    CASE load = "core" -> CoreLoad
      [] load = "files" -> FilesLoad
      [] load = "visibility" -> VisibilityLoad
      [] load = "wide" -> WideLoad
      [] load = "reaction" -> ReactionLoad
      [] load = "replies" -> RepliesLoad
      [] load = "odd" -> OddLoad

\* ---------------------------------------------------------------- helpers

\* A query that also sees the uncommitted rows of the other transactions.
TxPosts_Dirty(p, id) ==
    {r \in (posts \cup UNION {tx[q].posts : q \in Procs}) :
       r.id = id /\ id \notin tx[p].del}

\* The rows of post with this id that a query inside p's transaction sees
\* (read committed: the committed rows and p's own uncommitted changes).
TxPosts(p, id) ==
    {r \in (posts \cup tx[p].posts) : r.id = id /\ id \notin tx[p].del}

\* A handle that stays open when it is dropped.
Dropped_Leaked(t) == t

\* Dropping the transaction handle without commit rolls it back.
Dropped(t) == IF t.state = "open" THEN [NoTx EXCEPT !.state = "rolledback"] ELSE t

\* The fate of the post a failing create request had inserted.
HistAfterDrop(p) ==
    IF req[p].kind = "create" /\ IsSome(loc[p].post) /\ tx[p].state = "open"
    THEN [hist EXCEPT ![Unwrap(loc[p].post).id] = [state |-> "aborted", req |-> None]]
    ELSE hist

\* return Err(..): the handler ends, its transaction handle is dropped.
Fail(p, status, msg) ==
    /\ pc' = [pc EXCEPT ![p] = "done"]
    /\ res' = [res EXCEPT ![p] = [status |-> status, msg |-> msg, body |-> None]]
    /\ tx' = [tx EXCEPT ![p] = Dropped(tx[p])]
    /\ hist' = HistAfterDrop(p)
    /\ loc' = [loc EXCEPT ![p] = [NoLoc EXCEPT !.post = loc[p].post]]

Goto(p, l) == pc' = [pc EXCEPT ![p] = l]

\* -------------------------------------------------------------- post_post

\* Creates that have not yet drawn their id.
PendingCreates == {q \in Procs : pc[q] \in {"c_begin", "c_reply", "c_insert"}}

\* A client sends a request on connection p: the previous request's handler
\* has returned and its locals are gone.
Start(p, r, l) ==
    /\ pc[p] \in {"idle", "done"}
    /\ req' = [req EXCEPT ![p] = r]
    /\ tx' = [tx EXCEPT ![p] = NoTx]
    /\ loc' = [loc EXCEPT ![p] = NoLoc]
    /\ res' = [res EXCEPT ![p] = NoRes]
    /\ Goto(p, l)
    /\ UNCHANGED <<posts, remote_files, reactions, nextId, nextReaction,
                   dispatched, hist, load>>

StartCreate(p) ==
    /\ p \in Workload.creators
    /\ (nextId - 1) + Cardinality(PendingCreates) < Cardinality(Workload.ids)
    /\ \E r \in Workload.creates :
         Start(p, [kind |-> "create", body |-> r], "c_begin")

\* data.db.begin()
CreateBegin(p) ==
    /\ pc[p] = "c_begin"
    /\ tx' = [tx EXCEPT ![p] = [NoTx EXCEPT !.state = "open"]]
    /\ Goto(p, "c_reply")
    /\ UNCHANGED <<posts, remote_files, reactions, nextId, nextReaction, req,
                   loc, res, dispatched, hist, load>>

\* The handler without the check of the reply target.
CreateCheckReply_NoCheck(p) ==
    /\ pc[p] = "c_reply"
    /\ Goto(p, "c_insert")
    /\ UNCHANGED <<posts, remote_files, reactions, nextId, nextReaction, req,
                   tx, loc, res, dispatched, hist, load>>

\* A check that reserves the reply target: it waits while another create
\* that replies to the same post is between its check and its commit.
CreateCheckReply_Reserving(p) ==
    /\ pc[p] = "c_reply"
    /\ \A q \in Procs \ {p} :
         ~(/\ pc[q] \in {"c_insert", "c_attach"}
           /\ req[q].body.reply_id = req[p].body.reply_id)
    /\ LET reply == req[p].body.reply_id
           reply_post_count ==
               IF IsSome(reply) THEN Cardinality(TxPosts(p, Unwrap(reply))) ELSE 1
       IN IF IsSome(reply) /\ reply_post_count = 0
          THEN /\ Fail(p, "NotFound", "reply target post not found")
               /\ UNCHANGED <<posts, remote_files, reactions, nextId,
                              nextReaction, req, dispatched, load>>
          ELSE /\ Goto(p, "c_insert")
               /\ UNCHANGED <<posts, remote_files, reactions, nextId,
                              nextReaction, req, tx, loc, res, dispatched, hist,
                              load>>

\* if let Some(reply_id) = &req.reply_id { count ... == 0 => NOT_FOUND }
CreateCheckReply(p) ==
    /\ pc[p] = "c_reply"
    /\ LET reply == req[p].body.reply_id
           reply_post_count ==
               IF IsSome(reply) THEN Cardinality(TxPosts(p, Unwrap(reply))) ELSE 1
       IN IF IsSome(reply) /\ reply_post_count = 0
          THEN /\ Fail(p, "NotFound", "reply target post not found")
               /\ UNCHANGED <<posts, remote_files, reactions, nextId,
                              nextReaction, req, dispatched, load>>
          ELSE /\ Goto(p, "c_insert")
               /\ UNCHANGED <<posts, remote_files, reactions, nextId,
                              nextReaction, req, tx, loc, res, dispatched, hist,
                              load>>

\* A row that leaves out the request's title.
NewPost_Untitled(id, r) ==
    [id |-> id, reply_id |-> r.reply_id, text |-> r.text, title |-> None,
     user_id |-> None, visibility |-> ToStorageVisibility(r.visibility),
     is_sensitive |-> r.is_sensitive, uri |-> PostUri(id)]

\* A row whose owner reference names a user that table user does not hold.
NewPost_Owned(id, r) ==
    [id |-> id, reply_id |-> r.reply_id, text |-> r.text, title |-> r.title,
     user_id |-> Some("u0"), visibility |-> ToStorageVisibility(r.visibility),
     is_sensitive |-> r.is_sensitive, uri |-> PostUri(id)]

\* The row post_post builds from the request (post::ActiveModel).
NewPost(id, r) ==
    [id |-> id, reply_id |-> r.reply_id, text |-> r.text, title |-> r.title,
     user_id |-> None, visibility |-> ToStorageVisibility(r.visibility),
     is_sensitive |-> r.is_sensitive, uri |-> PostUri(id)]

\* The insert given the connection instead of the transaction: the row is
\* stored at once.
CreateInsert_OutsideTx(p) ==
    /\ pc[p] = "c_insert"
    /\ LET post == NewPost(nextId, req[p].body)
       IN /\ posts' = posts \cup {post}
          /\ loc' = [loc EXCEPT ![p] = [NoLoc EXCEPT !.post = Some(post)]]
          /\ hist' = [hist EXCEPT ![nextId] =
                        [state |-> "open", req |-> Some(req[p].body)]]
    /\ nextId' = nextId + 1
    /\ Goto(p, "c_attach")
    /\ UNCHANGED <<remote_files, reactions, nextReaction, req, res, tx,
                   dispatched, load>>

\* let id = Uuid::new_v4(); post_activemodel.insert(&tx)
CreateInsert(p) ==
    /\ pc[p] = "c_insert"
    /\ LET post == NewPost(nextId, req[p].body)
       IN /\ tx' = [tx EXCEPT ![p].posts = @ \cup {post}]
          /\ loc' = [loc EXCEPT ![p] = [NoLoc EXCEPT !.post = Some(post)]]
          /\ hist' = [hist EXCEPT ![nextId] =
                        [state |-> "open", req |-> Some(req[p].body)]]
    /\ nextId' = nextId + 1
    /\ Goto(p, "c_attach")
    /\ UNCHANGED <<posts, remote_files, reactions, nextReaction, req, res,
                   dispatched, load>>

\* file.attach_to_post(post_id, order, &tx): the attachment row it inserts.
\* pos is the row's position in the request, kept to state the claims.
AttachToPost(file, post_id, order, pos) ==
    [post_id |-> post_id, order |-> order, file |-> file.id,
     media_type |-> file.media_type, url |-> file.url, alt |-> file.alt,
     pos |-> pos]

\* One iteration of: for (idx, local_file_id) in req.files.into_iter().enumerate()
CreateAttach(p) ==
    /\ pc[p] = "c_attach"
    /\ loc[p].idx < Len(req[p].body.files)
    /\ LET idx == loc[p].idx
           file == FindLocalFile(req[p].body.files[idx + 1])
           post == Unwrap(loc[p].post)
       IN IF ~IsSome(file)
          THEN Fail(p, "NotFound", "file not found")
          ELSE /\ tx' = [tx EXCEPT ![p].files =
                           @ \cup {AttachToPost(Unwrap(file), post.id, AsU8(idx), idx)}]
               /\ loc' = [loc EXCEPT ![p].idx = idx + 1]
               /\ UNCHANGED <<pc, res, hist>>
    /\ UNCHANGED <<posts, remote_files, reactions, nextId, nextReaction, req,
                   dispatched, load>>

\* The handler dispatching without having committed.
CreateCommit_Skipped(p) ==
    /\ pc[p] = "c_attach"
    /\ loc[p].idx = Len(req[p].body.files)
    /\ Goto(p, "c_dispatch")
    /\ UNCHANGED <<posts, remote_files, reactions, nextId, nextReaction, req,
                   tx, loc, res, dispatched, hist, load>>

\* tx.commit(): the transaction's rows become visible to every request.
CreateCommit(p) ==
    /\ pc[p] = "c_attach"
    /\ loc[p].idx = Len(req[p].body.files)
    /\ posts' = posts \cup tx[p].posts
    /\ remote_files' = remote_files \cup tx[p].files
    /\ tx' = [tx EXCEPT ![p] = [NoTx EXCEPT !.state = "committed"]]
    /\ hist' = [hist EXCEPT ![Unwrap(loc[p].post).id].state = "committed"]
    /\ Goto(p, "c_dispatch")
    /\ UNCHANGED <<reactions, nextId, nextReaction, req, loc, res, dispatched,
                   load>>

\* A handler that removes the post again when the dispatch fails.
CreateDispatch_Compensating(p) ==
    /\ pc[p] = "c_dispatch"
    /\ LET id == Unwrap(loc[p].post).id
       IN \E delivered \in BOOLEAN :
            /\ dispatched' = [dispatched EXCEPT !["Create", id] = @ + 1]
            /\ posts' = IF delivered THEN posts ELSE {r \in posts : r.id # id}
            /\ remote_files' = IF delivered THEN remote_files
                                ELSE {r \in remote_files : r.post_id # id}
            /\ res' = [res EXCEPT ![p] =
                  IF delivered
                  THEN [status |-> "Ok", msg |-> "", body |-> Some(id)]
                  ELSE [status |-> "Internal", msg |-> "dispatch failed",
                        body |-> None]]
    /\ Goto(p, "done")
    /\ UNCHANGED <<reactions, nextId, nextReaction, req, tx, loc, hist, load>>

\* post.into_json(&data), post.into_create(), create.send(&data): rendering
\* and delivery either succeed or fail; then Ok(Json(PostPostResp { id })).
CreateDispatch(p) ==
    /\ pc[p] = "c_dispatch"
    /\ LET id == Unwrap(loc[p].post).id
       IN \E delivered \in BOOLEAN :
            /\ dispatched' = [dispatched EXCEPT !["Create", id] = @ + 1]
            /\ res' = [res EXCEPT ![p] =
                  IF delivered
                  THEN [status |-> "Ok", msg |-> "", body |-> Some(id)]
                  ELSE [status |-> "Internal", msg |-> "dispatch failed",
                        body |-> None]]
    /\ Goto(p, "done")
    /\ UNCHANGED <<posts, remote_files, reactions, nextId, nextReaction, req,
                   tx, loc, hist, load>>

\* --------------------------------------------------------------- get_post

\* The table user (read-only here) and the reactions other handlers store.
Users == {[id |-> "u1", handle |-> "alice", host |-> "example.org"]}
FindUser(uid) == {u \in Users : u.id = uid}

GoodUrl == [scheme |-> "https", host |-> "emoji.example", path |-> "/blob.png", id |-> 0]
BadUrl == [scheme |-> "", host |-> "", path |-> "not a url", id |-> 0]

StartGet(p) ==
    /\ p \in Workload.readers
    /\ \E id \in Workload.targets : Start(p, [kind |-> "get", id |-> id], "g_find")

\* post::Entity::find_by_id(id).one(db)...context_not_found, then the owner:
\* a query of table user only when post.user_id is Some.
GetFind(p) ==
    /\ pc[p] = "g_find"
    /\ LET found == {r \in posts : r.id = req[p].id}
       IN IF found = {}
          THEN Fail(p, "NotFound", "post not found")
          ELSE LET post == CHOOSE r \in found : TRUE
                   owner == IF IsSome(post.user_id)
                            THEN FindUser(Unwrap(post.user_id)) ELSE {}
               IN IF IsSome(post.user_id) /\ owner = {}
                  THEN Fail(p, "Internal", "user not found")
                  ELSE /\ loc' = [loc EXCEPT ![p].post = Some(post),
                                    ![p].user =
                                       IF owner = {} THEN None
                                       ELSE LET u == CHOOSE u \in owner : TRUE
                                            IN Some([handle |-> u.handle,
                                                     host |-> u.host])]
                       /\ Goto(p, "g_files")
                       /\ UNCHANGED <<tx, res, hist>>
    /\ UNCHANGED <<posts, remote_files, reactions, nextId, nextReaction, req,
                   dispatched, load>>

\* The enumerations of a finite set.
RECURSIVE Perms(_)
Perms(S) ==
    IF S = {} THEN {<< >>}
    ELSE UNION {{<<x>> \o t : t \in Perms(S \ {x})} : x \in S}

\* Every sequence of the rows, whose orders lie in lo..hi, in ascending
\* order; rows of equal order come in any order.
RECURSIVE SortRange(_, _, _)
SortRange(rows, lo, hi) ==
    IF rows = {} THEN {<< >>}
    ELSE IF lo = hi THEN Perms(rows)
    ELSE LET mid == (lo + hi) \div 2
         IN {a \o b : a \in SortRange({r \in rows : r.order <= mid}, lo, mid),
                      b \in SortRange({r \in rows : r.order > mid}, mid + 1, hi)}

\* order_by_asc(remote_file::Column::Order) over the whole order column.
SortedByOrder(rows) == SortRange(rows, 0, OrderRange - 1)

\* A closure that keeps every row, with its fields as stored.
FileProjection_Keeping(file) ==
    Some([media_type |-> file.media_type, url |-> file.url, alt |-> file.alt])

\* The closure of the files filter_map: None drops the row.
FileProjection(file) ==
    IF IsSome(ParseMime(file.media_type)) /\ IsSome(ParseUrl(file.url))
    THEN Some([media_type |-> Unwrap(ParseMime(file.media_type)),
               url |-> Unwrap(ParseUrl(file.url)), alt |-> file.alt])
    ELSE None

\* filter_map(..).collect::<Vec<_>>() on the closure's results at positions
\* lo..hi: the Some values in their order, the None values dropped.
RECURSIVE CollectSome(_, _, _)
CollectSome(s, lo, hi) ==
    IF lo > hi THEN << >>
    ELSE IF lo = hi THEN (IF IsSome(s[lo]) THEN <<Unwrap(s[lo])>> ELSE << >>)
    ELSE LET mid == (lo + hi) \div 2
         IN CollectSome(s, lo, mid) \o CollectSome(s, mid + 1, hi)

\* post.find_related(remote_file::Entity).order_by_asc(Order).all(db)
GetFiles(p) ==
    /\ pc[p] = "g_files"
    /\ LET post == Unwrap(loc[p].post)
           rows == {r \in remote_files : r.post_id = post.id}
       IN \E remote \in SortedByOrder(rows) :
            loc' = [loc EXCEPT ![p].files =
                      CollectSome([i \in DOMAIN remote |-> FileProjection(remote[i])],
                                  1, Len(remote))]
    /\ Goto(p, "g_reactions")
    /\ UNCHANGED <<posts, remote_files, reactions, nextId, nextReaction, req,
                   tx, res, dispatched, hist, load>>

\* A closure that drops every reaction whose custom emoji is incomplete.
ReactionProjection_Strict(reaction) ==
    LET both == IsSome(reaction.emoji_media_type) /\ IsSome(reaction.emoji_image_url)
        neither == ~IsSome(reaction.emoji_media_type) /\ ~IsSome(reaction.emoji_image_url)
        user == IF IsSome(reaction.user_id) /\ FindUser(Unwrap(reaction.user_id)) # {}
                THEN LET u == CHOOSE u \in FindUser(Unwrap(reaction.user_id)) : TRUE
                     IN Some([handle |-> u.handle, host |-> u.host])
                ELSE None
    IN IF neither
       THEN Some([of |-> reaction.id, user |-> user, content |-> reaction.content,
                  emoji |-> None])
       ELSE IF both /\ IsSome(ParseMime(Unwrap(reaction.emoji_media_type)))
                    /\ IsSome(ParseUrl(Unwrap(reaction.emoji_image_url)))
       THEN Some([of |-> reaction.id, user |-> user, content |-> reaction.content,
                  emoji |-> Some([media_type |-> Unwrap(reaction.emoji_media_type),
                                  image_url |-> Unwrap(reaction.emoji_image_url)])])
       ELSE None

\* The closure of the reactions filter_map: the ? inside it returns None
\* from the closure, and filter_map drops the element.
ReactionProjection(reaction) ==
    LET both == IsSome(reaction.emoji_media_type) /\ IsSome(reaction.emoji_image_url)
        media_type == IF both THEN ParseMime(Unwrap(reaction.emoji_media_type)) ELSE None
        image_url == IF both THEN ParseUrl(Unwrap(reaction.emoji_image_url)) ELSE None
        user == IF IsSome(reaction.user_id) /\ FindUser(Unwrap(reaction.user_id)) # {}
                THEN LET u == CHOOSE u \in FindUser(Unwrap(reaction.user_id)) : TRUE
                     IN Some([handle |-> u.handle, host |-> u.host])
                ELSE None
    IN IF both /\ (~IsSome(media_type) \/ ~IsSome(image_url))
       THEN None
       ELSE Some([of |-> reaction.id, user |-> user, content |-> reaction.content,
                  emoji |-> IF both
                            THEN Some([media_type |-> Unwrap(media_type),
                                       image_url |-> Unwrap(image_url)])
                            ELSE None])

\* GetPostResp; the reactions come in no stated order (a set here).
GetPostResp(post, user, files, rs) ==
    [id |-> post.id, reply_id |-> post.reply_id, text |-> post.text,
     title |-> post.title, user |-> user,
     visibility |-> ToWireVisibility(post.visibility),
     is_sensitive |-> post.is_sensitive, uri |-> Unwrap(ParseUrl(post.uri)),
     files |-> files, reactions |-> rs]

\* reaction::Entity::find().filter(PostId.eq(post.id)).find_also_related(user)
\* .all(db), the filter_map, and Ok(Json(GetPostResp { .. })).
GetReactions(p) ==
    /\ pc[p] = "g_reactions"
    /\ LET post == Unwrap(loc[p].post)
           rows == {r \in reactions : r.post_id = post.id}
           rs == {Unwrap(ReactionProjection(r)) :
                    r \in {x \in rows : IsSome(ReactionProjection(x))}}
       IN IF ~IsSome(ParseUrl(post.uri))
          THEN Fail(p, "Internal", "malformed post URI")
          ELSE /\ res' = [res EXCEPT ![p] =
                     [status |-> "Ok", msg |-> "",
                      body |-> Some(GetPostResp(post, loc[p].user, loc[p].files, rs))]]
               /\ Goto(p, "done")
               /\ UNCHANGED <<tx, hist, loc>>
    /\ UNCHANGED <<posts, remote_files, reactions, nextId, nextReaction, req,
                   dispatched, load>>

\* ------------------------------------------------------------ delete_post

StartDelete(p) ==
    /\ p \in Workload.deleters
    /\ \E id \in Workload.targets :
         Start(p, [kind |-> "delete", id |-> id], "d_begin")

\* data.db.begin()
DeleteBegin(p) ==
    /\ pc[p] = "d_begin"
    /\ tx' = [tx EXCEPT ![p] = [NoTx EXCEPT !.state = "open"]]
    /\ Goto(p, "d_find")
    /\ UNCHANGED <<posts, remote_files, reactions, nextId, nextReaction, req,
                   loc, res, dispatched, hist, load>>

\* A handler that answers NotFound when the post does not exist.
DeleteFind_NotFound(p) ==
    /\ pc[p] = "d_find"
    /\ LET existing == TxPosts(p, req[p].id)
       IN IF existing = {}
          THEN Fail(p, "NotFound", "post not found")
          ELSE /\ loc' = [loc EXCEPT ![p].post = Some(CHOOSE r \in existing : TRUE)]
               /\ Goto(p, "d_delete")
               /\ UNCHANGED <<tx, res, hist>>
    /\ UNCHANGED <<posts, remote_files, reactions, nextId, nextReaction, req,
                   dispatched, load>>

\* post::Entity::find_by_id(id).one(&tx); None => Ok(()) with tx dropped.
DeleteFind(p) ==
    /\ pc[p] = "d_find"
    /\ LET existing == TxPosts(p, req[p].id)
       IN IF existing = {}
          THEN /\ res' = [res EXCEPT ![p] = [status |-> "Ok", msg |-> "", body |-> None]]
               /\ tx' = [tx EXCEPT ![p] = Dropped(tx[p])]
               /\ Goto(p, "done")
               /\ UNCHANGED loc
          ELSE /\ loc' = [loc EXCEPT ![p].post = Some(CHOOSE r \in existing : TRUE)]
               /\ Goto(p, "d_delete")
               /\ UNCHANGED <<tx, res>>
    /\ UNCHANGED <<posts, remote_files, reactions, nextId, nextReaction, req,
                   dispatched, hist, load>>

\* A handler whose delete statement removes nothing.
DeleteRow_NoOp(p) ==
    /\ pc[p] = "d_delete"
    /\ Goto(p, "d_commit")
    /\ UNCHANGED <<posts, remote_files, reactions, nextId, nextReaction, req,
                   tx, loc, res, dispatched, hist, load>>

\* ModelTrait::delete(existing, &tx): waits while another open transaction
\* holds the row's lock; deleting a row that is gone affects no row and is
\* no error.
DeleteRow(p) ==
    /\ pc[p] = "d_delete"
    /\ \A q \in Procs \ {p} : ~(tx[q].state = "open" /\ req[p].id \in tx[q].del)
    /\ tx' = [tx EXCEPT ![p].del = @ \cup {req[p].id}]
    /\ Goto(p, "d_commit")
    /\ UNCHANGED <<posts, remote_files, reactions, nextId, nextReaction, req,
                   loc, res, dispatched, hist, load>>

\* tx.commit(): the row goes, and with it (the schema's referential rules)
\* the rows of remote_file and reaction that reference it.
DeleteCommit(p) ==
    /\ pc[p] = "d_commit"
    /\ posts' = {r \in posts : r.id \notin tx[p].del}
    /\ remote_files' = {r \in remote_files : r.post_id \notin tx[p].del}
    /\ reactions' = {r \in reactions : r.post_id \notin tx[p].del}
    /\ hist' = [i \in PostIds |->
                  IF i = req[p].id /\ hist[i].state = "committed"
                  THEN [state |-> "deleted", req |-> None] ELSE hist[i]]
    /\ tx' = [tx EXCEPT ![p] = [NoTx EXCEPT !.state = "committed"]]
    /\ Goto(p, "d_dispatch")
    /\ UNCHANGED <<nextId, nextReaction, req, loc, res, dispatched, load>>

\* Delete::new(uri.parse()?)?, delete.send(&data), Ok(())
DeleteDispatch(p) ==
    /\ pc[p] = "d_dispatch"
    /\ LET existing == Unwrap(loc[p].post)
       IN IF ~IsSome(ParseUrl(existing.uri))
          THEN /\ Fail(p, "Internal", "malformed post URI")
               /\ UNCHANGED dispatched
          ELSE \E delivered \in BOOLEAN :
                 /\ dispatched' = [dispatched EXCEPT !["Delete", existing.id] = @ + 1]
                 /\ res' = [res EXCEPT ![p] =
                       IF delivered
                       THEN [status |-> "Ok", msg |-> "", body |-> None]
                       ELSE [status |-> "Internal", msg |-> "dispatch failed",
                             body |-> None]]
                 /\ Goto(p, "done")
                 /\ UNCHANGED <<tx, hist, loc>>
    /\ UNCHANGED <<posts, remote_files, reactions, nextId, nextReaction, req,
                   load>>

\* --------------------------------------------------------- storage errors

\* The storage calls, each followed by context_internal_server_error(..)? .
StorageMsg(l) ==
    CASE l \in {"c_begin", "d_begin"} -> "failed to begin database transaction"
      [] l = "c_reply" -> "failed to request database"
      [] l = "c_insert" -> "failed to insert to database"
      [] l = "c_attach" -> "failed to query database"
      [] l = "c_commit" -> "failed to commmit database transaction"
      [] l \in {"g_find", "g_files", "g_reactions", "d_find"} ->
             "failed to query database"
      [] l = "d_delete" -> "failed to delete from database"
      [] l = "d_commit" -> "failed to commit database transaction"

\* Where the handler of p stands, telling the commit of post_post from the
\* iterations of its loop.
At(p) ==
    IF pc[p] = "c_attach" /\ loc[p].idx = Len(req[p].body.files)
    THEN "c_commit" ELSE pc[p]

\* A storage call returns Err: the handler returns an internal error and
\* the transaction, if open, is rolled back.
StorageError(p) ==
    /\ pc[p] \notin {"idle", "done", "c_dispatch", "d_dispatch"}
    /\ Fail(p, "Internal", StorageMsg(At(p)))
    /\ UNCHANGED <<posts, remote_files, reactions, nextId, nextReaction, req,
                   dispatched, load>>

\* ------------------------------------------------------------ environment

\* The reacting user and the custom-emoji fields of a stored reaction.
ReactionShapes ==
    {<<Some("u1"), Some("image/png"), Some(GoodUrl)>>,
     <<Some("u1"), Some("not a mime"), Some(GoodUrl)>>,
     <<Some("u1"), Some("image/png"), Some(BadUrl)>>,
     <<Some("u1"), Some("image/png"), None>>,
     <<Some("u1"), None, Some(GoodUrl)>>,
     <<None, None, None>>}

\* Another handler stores a reaction to an existing post.
AddReaction ==
    /\ nextReaction <= MaxReactions
    /\ Workload.reacting
    /\ \E post \in posts, e \in ReactionShapes :
         reactions' = reactions \cup
            {[id |-> nextReaction, post_id |-> post.id, user_id |-> e[1],
              content |-> ":blob:", emoji_media_type |-> e[2],
              emoji_image_url |-> e[3]]}
    /\ nextReaction' = nextReaction + 1
    /\ UNCHANGED <<posts, remote_files, nextId, pc, req, tx, loc, res,
                   dispatched, hist, load>>

\* ------------------------------------------------------- specifications

Next ==
    \/ \E p \in Procs : StartCreate(p)
    \/ \E p \in Procs : CreateBegin(p)
    \/ \E p \in Procs : CreateCheckReply(p)
    \/ \E p \in Procs : CreateInsert(p)
    \/ \E p \in Procs : CreateAttach(p)
    \/ \E p \in Procs : CreateCommit(p)
    \/ \E p \in Procs : CreateDispatch(p)
    \/ \E p \in Procs : StartGet(p)
    \/ \E p \in Procs : GetFind(p)
    \/ \E p \in Procs : GetFiles(p)
    \/ \E p \in Procs : GetReactions(p)
    \/ \E p \in Procs : StartDelete(p)
    \/ \E p \in Procs : DeleteBegin(p)
    \/ \E p \in Procs : DeleteFind(p)
    \/ \E p \in Procs : DeleteRow(p)
    \/ \E p \in Procs : DeleteCommit(p)
    \/ \E p \in Procs : DeleteDispatch(p)
    \/ \E p \in Procs : StorageError(p)

NextReacting == Next \/ AddReaction

Spec == Init /\ [][Next]_vars
SpecFiles == InitFiles /\ [][Next]_vars
SpecVisibility == InitVisibility /\ [][Next]_vars
SpecWide == InitWide /\ [][Next]_vars
SpecReaction == InitReaction /\ [][NextReacting]_vars
SpecReplies == InitReplies /\ [][Next]_vars
SpecOdd == InitOdd /\ [][Next]_vars

\* ----------------------------------------------------------------- claims

StorageMsgs ==
    {"failed to begin database transaction", "failed to request database",
     "failed to insert to database", "failed to query database",
     "failed to commmit database transaction", "failed to delete from database",
     "failed to commit database transaction"}

\* The request ended with the error of a failing storage call.
StorageFailed(p) == res[p].status = "Internal" /\ res[p].msg \in StorageMsgs

HasMissingFile(files) == \E i \in DOMAIN files : files[i] \notin LocalFileIds

\* The post id, or a part of the post, shows in the committed store or in
\* what a read has fetched or returned.
Visible(id) ==
    \/ \E r \in posts : r.id = id
    \/ \E f \in remote_files : f.post_id = id
    \/ \E q \in Procs :
         /\ req[q].kind = "get"
         /\ \/ IsSome(loc[q].post) /\ Unwrap(loc[q].post).id = id
            \/ IsSome(res[q].body) /\ Unwrap(res[q].body).id = id

\* C1: a create request whose file list holds an id of no existing file, at
\* any position, ends with NotFound (unless a storage call failed first),
\* and at no time does the committed store or a read of another request show
\* its post row or any of its attachments.
C1_MissingFileAllOrNothing ==
    /\ \A p \in Procs :
         (req[p].kind = "create" /\ HasMissingFile(req[p].body.files)) =>
            /\ pc[p] = "done" =>
                 \/ res[p].status = "NotFound" /\ res[p].msg = "file not found"
                 \/ StorageFailed(p)
            /\ IsSome(loc[p].post) =>
                 LET id == Unwrap(loc[p].post).id
                 IN /\ ~Visible(id)
                    /\ hist[id].state \in {"open", "aborted"}
                    /\ pc[p] = "done" => hist[id].state = "aborted"
    /\ \A id \in PostIds : hist[id].state = "aborted" => ~Visible(id)

\* A create failed at a missing file that follows an attached one, and a read
\* of the id it had drawn found nothing.
C1_Witness ==
    \E p, q \in Procs :
       /\ pc[p] = "done" /\ req[p].kind = "create"
       /\ Len(req[p].body.files) = 2
       /\ req[p].body.files[1] \in LocalFileIds
       /\ req[p].body.files[2] \notin LocalFileIds
       /\ res[p].status = "NotFound" /\ res[p].msg = "file not found"
       /\ IsSome(loc[p].post)
       /\ pc[q] = "done" /\ req[q].kind = "get"
       /\ req[q].id = Unwrap(loc[p].post).id
       /\ res[q].status = "NotFound"

\* C2: when the reply target of a create request names no post, the request
\* ends with NotFound at the check (unless the count query itself failed):
\* it draws no id, its transaction is rolled back, the stored posts and
\* attachments stay as they are and nothing is dispatched.
C2_MissingReplyTarget ==
    [][\A p \in Procs :
         (/\ pc[p] = "c_reply" /\ pc'[p] # "c_reply"
          /\ IsSome(req[p].body.reply_id)
          /\ TxPosts(p, Unwrap(req[p].body.reply_id)) = {})
         => /\ pc'[p] = "done"
            /\ \/ res'[p].status = "NotFound"
                  /\ res'[p].msg = "reply target post not found"
               \/ res'[p].status = "Internal"
                  /\ res'[p].msg = "failed to request database"
            /\ ~IsSome(loc'[p].post)
            /\ tx'[p].state = "rolledback"
            /\ posts' = posts /\ remote_files' = remote_files
            /\ nextId' = nextId /\ hist' = hist
            /\ dispatched' = dispatched]_vars

\* A reply to a post that has been deleted ended with NotFound.
C2_Witness ==
    \E p \in Procs :
       /\ pc[p] = "done" /\ req[p].kind = "create"
       /\ IsSome(req[p].body.reply_id)
       /\ hist[Unwrap(req[p].body.reply_id)].state = "deleted"
       /\ res[p].status = "NotFound"
       /\ res[p].msg = "reply target post not found"

\* C3: a create or delete activity is dispatched only by a request whose
\* transaction has committed: a handler at its dispatch holds a committed
\* transaction, and every post id with a dispatch attempt has been committed
\* (and, for a delete activity, deleted).
C3_DispatchAfterCommit ==
    /\ \A p \in Procs :
         pc[p] \in {"c_dispatch", "d_dispatch"} => tx[p].state = "committed"
    /\ \A id \in PostIds :
         /\ dispatched["Create", id] > 0 => hist[id].state \in {"committed", "deleted"}
         /\ dispatched["Delete", id] > 0 => hist[id].state = "deleted"
    /\ \A p \in Procs :
         (pc[p] = "done" /\ req[p].kind = "create" /\ IsSome(loc[p].post)
          /\ tx[p].state # "committed")
         => dispatched["Create", Unwrap(loc[p].post).id] = 0

\* Both activities of one post have been dispatched.
C3_Witness ==
    \E id \in PostIds : dispatched["Create", id] > 0 /\ dispatched["Delete", id] > 0

\* The post of this create request with all its attachments is stored.
StoredWhole(id, body) ==
    /\ NewPost(id, body) \in posts
    /\ \A i \in DOMAIN body.files :
         \E f \in remote_files : f.post_id = id /\ f.pos = i - 1 /\ f.file = body.files[i]

\* C4: a create request whose dispatch failed after its commit returns a
\* failure, and its post with all attachments stays stored (until a delete
\* request removes it): nothing is rolled back.
C4_DispatchFailureKeepsPost ==
    \A p \in Procs :
       (pc[p] = "done" /\ req[p].kind = "create" /\ res[p].msg = "dispatch failed")
       => /\ res[p].status = "Internal"
          /\ tx[p].state = "committed"
          /\ LET id == Unwrap(loc[p].post).id
             IN /\ hist[id].state \in {"committed", "deleted"}
                /\ hist[id].state = "committed" => StoredWhole(id, req[p].body)

\* A create with attachments failed at its dispatch and a later read of its
\* post succeeded.
C4_Witness ==
    \E p, q \in Procs :
       /\ pc[p] = "done" /\ req[p].kind = "create" /\ res[p].msg = "dispatch failed"
       /\ Len(req[p].body.files) = 2
       /\ pc[q] = "done" /\ req[q].kind = "get"
       /\ req[q].id = Unwrap(loc[p].post).id
       /\ res[q].status = "Ok"
       /\ Len(Unwrap(res[q].body).files) = 2

\* C5: for every create request with N existing files the i-th file of its
\* list is stored with order i, and a read of the stored post returns the
\* files in the sequence of the list.
C5_OrderIsPosition ==
    \A id \in PostIds :
       hist[id].state = "committed" =>
          LET body == Unwrap(hist[id].req)
          IN /\ \A i \in DOMAIN body.files :
                  \E f \in remote_files :
                     f.post_id = id /\ f.file = body.files[i] /\ f.order = i - 1
             /\ \A p \in Procs :
                  (pc[p] = "done" /\ req[p].kind = "get" /\ req[p].id = id
                   /\ res[p].status = "Ok")
                  => LET files == Unwrap(res[p].body).files
                     IN [k \in DOMAIN files |-> files[k].url.id] = body.files

\* C6: a create request with more files than the order column has values is
\* rejected and stores nothing, and no stored attachment has an order other
\* than its position in the list.
C6_NoWrappedOrder ==
    /\ \A f \in remote_files : f.order = f.pos
    /\ \A p \in Procs :
         (pc[p] = "done" /\ req[p].kind = "create"
          /\ Len(req[p].body.files) > OrderRange)
         => /\ res[p].status \notin {"Ok"}
            /\ tx[p].state # "committed"

\* C7: once a delete request for an existing post has committed, the post is
\* gone for good: its row is not in the store, it stays deleted whatever
\* requests follow, and every read whose lookup comes after the commit ends
\* with NotFound (unless the lookup query itself fails).
C7_DeletedReadsNotFound ==
    /\ [](\A id \in PostIds :
            hist[id].state = "deleted" => \A r \in posts : r.id # id)
    /\ [][\A id \in PostIds :
            hist[id].state = "deleted" => hist'[id].state = "deleted"]_vars
    /\ [][\A p \in Procs :
            (pc[p] = "g_find" /\ pc'[p] # "g_find"
             /\ hist[req[p].id].state = "deleted")
            => /\ pc'[p] = "done"
               /\ \/ res'[p].status = "NotFound"
                  \/ res'[p].status = "Internal"
                     /\ res'[p].msg = "failed to query database"]_vars

\* A delete committed and reported a dispatch failure, a later create stored
\* another post, and a read of the deleted id ended with NotFound.
C7_Witness ==
    \E p, q \in Procs :
       /\ pc[p] = "done" /\ req[p].kind = "delete" /\ res[p].msg = "dispatch failed"
       /\ hist[req[p].id].state = "deleted"
       /\ \E r \in posts : r.id > req[p].id
       /\ pc[q] = "done" /\ req[q].kind = "get" /\ req[q].id = req[p].id
       /\ res[q].status = "NotFound"

\* C8: a delete request that finds no post with its id ends with success
\* (unless the lookup query itself fails), commits nothing (its transaction is
\* rolled back), dispatches nothing and leaves the stored posts, attachments
\* and reactions as they are.
C8_DeleteUnknownIsNoOp ==
    [][\A p \in Procs :
         (pc[p] = "d_find" /\ pc'[p] # "d_find" /\ TxPosts(p, req[p].id) = {})
         => /\ pc'[p] = "done"
            /\ \/ res'[p].status = "Ok"
               \/ res'[p].status = "Internal"
                  /\ res'[p].msg = "failed to query database"
            /\ tx'[p].state = "rolledback"
            /\ posts' = posts /\ remote_files' = remote_files
            /\ reactions' = reactions
            /\ dispatched' = dispatched /\ hist' = hist]_vars

\* A repeated delete of a deleted post succeeded while another post with an
\* attachment and a reaction is stored.
C8_Witness ==
    \E p \in Procs :
       /\ pc[p] = "done" /\ req[p].kind = "delete" /\ res[p].status = "Ok"
       /\ ~IsSome(loc[p].post)
       /\ tx[p].state = "rolledback"
       /\ hist[req[p].id].state = "deleted"
       /\ dispatched["Delete", req[p].id] = 1
       /\ reactions # {} /\ remote_files # {}

\* C9: the two visibility mappings are total and inverse to each other on the
\* four values, and a read of a stored post returns the visibility its create
\* request carried.
C9_VisibilityRoundTrip ==
    /\ \A v \in WireVisibility :
         /\ ToStorageVisibility(v) \in StorageVisibility
         /\ ToWireVisibility(ToStorageVisibility(v)) = v
    /\ \A v \in StorageVisibility :
         /\ ToWireVisibility(v) \in WireVisibility
         /\ ToStorageVisibility(ToWireVisibility(v)) = v
    /\ \A p \in Procs :
         (pc[p] = "done" /\ req[p].kind = "get" /\ res[p].status = "Ok"
          /\ hist[req[p].id].state = "committed")
         => Unwrap(res[p].body).visibility = Unwrap(hist[req[p].id].req).visibility

\* Two reads returned two posts with the visibilities they were created with.
C9_Witness ==
    \E p, q \in Procs :
       /\ pc[p] = "done" /\ req[p].kind = "get" /\ res[p].status = "Ok"
       /\ pc[q] = "done" /\ req[q].kind = "get" /\ res[q].status = "Ok"
       /\ hist[req[p].id].state = "committed"
       /\ hist[req[q].id].state = "committed"
       /\ Unwrap(res[p].body).visibility = "followers"
       /\ Unwrap(hist[req[p].id].req).visibility = "followers"
       /\ Unwrap(res[q].body).visibility = "directMessage"
       /\ Unwrap(hist[req[q].id].req).visibility = "directMessage"

\* Both custom-emoji fields are present and one of them does not parse.
UnparsableEmoji(r) ==
    /\ IsSome(r.emoji_media_type) /\ IsSome(r.emoji_image_url)
    /\ \/ ~IsSome(ParseMime(Unwrap(r.emoji_media_type)))
       \/ ~IsSome(ParseUrl(Unwrap(r.emoji_image_url)))

\* C10: a read whose queries succeed returns every reaction of the post whose
\* custom-emoji fields are both present but do not both parse, with its emoji
\* absent.
C10_UnparsableEmojiKept ==
    [][\A p \in Procs :
         (pc[p] = "g_reactions" /\ pc'[p] = "done"
          /\ res'[p].msg # "failed to query database")
         => /\ res'[p].status = "Ok"
            /\ \A r \in reactions :
                 (r.post_id = req[p].id /\ UnparsableEmoji(r))
                 => \E x \in Unwrap(res'[p].body).reactions :
                       x.of = r.id /\ ~IsSome(x.emoji)]_vars

\* Exactly one of the two custom-emoji fields is present.
HalfEmoji(r) == IsSome(r.emoji_media_type) # IsSome(r.emoji_image_url)

\* user.map(|user| GetPostRespUser { .. }) as the response must carry it.
ReactingUser(r) ==
    IF IsSome(r.user_id) /\ \E u \in Users : u.id = Unwrap(r.user_id)
    THEN LET u == CHOOSE u \in Users : u.id = Unwrap(r.user_id)
         IN Some([handle |-> u.handle, host |-> u.host])
    ELSE None

\* C11: a read whose queries succeed returns every reaction of the post that
\* has exactly one of its two custom-emoji fields, with the reacting user and
\* the content as stored and with its emoji absent.
C11_HalfEmojiKept ==
    [][\A p \in Procs :
         (pc[p] = "g_reactions" /\ pc'[p] = "done"
          /\ res'[p].msg # "failed to query database")
         => /\ res'[p].status = "Ok"
            /\ \A r \in reactions :
                 (r.post_id = req[p].id /\ HalfEmoji(r))
                 => \E x \in Unwrap(res'[p].body).reactions :
                       /\ x.of = r.id /\ ~IsSome(x.emoji)
                       /\ x.content = r.content
                       /\ x.user = ReactingUser(r)]_vars

\* A read returned a reaction that has a media type and no image URL.
C11_Witness ==
    \E p \in Procs :
       /\ pc[p] = "done" /\ req[p].kind = "get" /\ res[p].status = "Ok"
       /\ \E r \in reactions :
            /\ r.post_id = req[p].id
            /\ IsSome(r.emoji_media_type) /\ ~IsSome(r.emoji_image_url)
            /\ \E x \in Unwrap(res[p].body).reactions :
                 x.of = r.id /\ ~IsSome(x.emoji) /\ IsSome(x.user)

\* The canonical URI of a post id, written out.
CanonicalUri(id) ==
    [scheme |-> "https", host |-> "CONFIG.domain", path |-> "/ap/post/", id |-> id]

\* The id has never been given to a post: no request has drawn it.
NeverDrawn(id) ==
    /\ hist[id].state = "unused"
    /\ \A r \in posts : r.id # id
    /\ \A q \in Procs : \A r \in tx[q].posts : r.id # id

\* C12: the id a create request draws has never been a post's id, and a
\* successful create returns the id of the post it committed; a read of a
\* stored post returns the text, title, reply target and sensitivity flag of
\* its create request and the canonical URI of its id, with empty files and
\* reactions when it was created without files and has no reaction; a read of
\* an id that no committed post ever had ends with NotFound (unless the
\* lookup query itself fails).
C12_CreateThenRead ==
    /\ [][\A p \in Procs :
            (pc[p] = "c_insert" /\ pc'[p] = "c_attach")
            => NeverDrawn(Unwrap(loc'[p].post).id)]_vars
    /\ [](\A p \in Procs :
            (pc[p] = "done" /\ req[p].kind = "create" /\ res[p].status = "Ok")
            => /\ res[p].body = Some(Unwrap(loc[p].post).id)
               /\ hist[Unwrap(loc[p].post).id].state \in {"committed", "deleted"}
               /\ \A q \in Procs \ {p} :
                    (req[q].kind = "create" /\ IsSome(loc[q].post))
                    => Unwrap(loc[q].post).id # Unwrap(loc[p].post).id)
    /\ [](\A p \in Procs :
            (pc[p] = "done" /\ req[p].kind = "get" /\ res[p].status = "Ok"
             /\ hist[req[p].id].state = "committed")
            => LET b == Unwrap(res[p].body)
                   c == Unwrap(hist[req[p].id].req)
               IN /\ b.id = req[p].id
                  /\ b.text = c.text /\ b.title = c.title
                  /\ b.reply_id = c.reply_id
                  /\ b.is_sensitive = c.is_sensitive
                  /\ b.uri = CanonicalUri(req[p].id)
                  /\ (c.files = << >> /\ \A r \in reactions : r.post_id # b.id)
                     => (b.files = << >> /\ b.reactions = {}))
    /\ [](\A p \in Procs :
            (pc[p] = "done" /\ req[p].kind = "get"
             /\ hist[req[p].id].state \in {"unused", "open", "aborted"})
            => \/ res[p].status = "NotFound" /\ res[p].msg = "post not found"
               \/ StorageFailed(p))

\* A create of a reply without files succeeded and a read of the id it
\* returned gave back the request's fields; the post it replies to was
\* created with a title and the sensitivity flag.
C12_Witness ==
    \E p, q \in Procs :
       /\ pc[p] = "done" /\ req[p].kind = "create" /\ res[p].status = "Ok"
       /\ req[p].body.files = << >> /\ IsSome(req[p].body.reply_id)
       /\ pc[q] = "done" /\ req[q].kind = "get" /\ res[q].status = "Ok"
       /\ Some(req[q].id) = res[p].body
       /\ hist[req[q].id].state = "committed"
       /\ Unwrap(res[q].body).text = "reply"
       /\ Unwrap(res[q].body).reply_id = req[p].body.reply_id
       /\ Unwrap(res[q].body).files = << >>
       /\ Unwrap(res[q].body).reactions = {}
       /\ \E r \in posts :
            Some(r.id) = req[p].body.reply_id /\ r.title = Some("title") /\ r.is_sensitive

\* The post ids reached from id by following reply targets over stored
\* posts, in at most n steps (one step or more).
RECURSIVE ReplyAncestors(_, _)
ReplyAncestors(id, n) ==
    IF n = 0 THEN {}
    ELSE LET up == {Unwrap(r.reply_id) : r \in {x \in posts : x.id = id /\ IsSome(x.reply_id)}}
         IN up \cup UNION {ReplyAncestors(t, n - 1) : t \in up}

\* C13: the reply relation over stored posts has no cycle: a post that
\* replies is committed only after a post with the target id has been
\* committed, every stored reply names a target that has been committed (it
\* may have been deleted since), no post replies to itself, and following
\* reply targets from a post never comes back to it.
C13_ReplyForest ==
    /\ [][\A p \in Procs :
            (pc[p] = "c_attach" /\ pc'[p] = "c_dispatch"
             /\ IsSome(req[p].body.reply_id))
            => /\ hist[Unwrap(req[p].body.reply_id)].state \in {"committed", "deleted"}
               /\ Unwrap(req[p].body.reply_id) # Unwrap(loc[p].post).id]_vars
    /\ [](\A r \in posts :
            /\ IsSome(r.reply_id) =>
                 /\ Unwrap(r.reply_id) # r.id
                 /\ hist[Unwrap(r.reply_id)].state \in {"committed", "deleted"}
            /\ r.id \notin ReplyAncestors(r.id, MaxPosts + 1))

\* A committed reply is stored and the post it replies to has been deleted.
C13_Witness ==
    \E r \in posts :
       /\ IsSome(r.reply_id)
       /\ hist[r.id].state = "committed"
       /\ hist[Unwrap(r.reply_id)].state = "deleted"

\* C14: a create or delete request works in one storage transaction: it is
\* begun once, at the handler's first step; while the handler is between its
\* begin and its commit the transaction is open; it is committed only by the
\* commit step that follows the success of every step inside it; and when
\* the request has ended, with whatever result, the transaction is committed
\* or rolled back, never open (none exists when begin itself failed).
C14_OneTransaction ==
    /\ [](\A p \in Procs :
            /\ pc[p] \in {"c_begin", "d_begin", "g_find", "g_files", "g_reactions"}
                 => tx[p].state = "none"
            /\ pc[p] \in {"c_reply", "c_insert", "c_attach", "d_find", "d_delete",
                          "d_commit"} => tx[p].state = "open"
            /\ pc[p] \in {"c_dispatch", "d_dispatch"} => tx[p].state = "committed"
            /\ (pc[p] = "done" /\ req[p].kind \in {"create", "delete"})
                 => /\ \/ tx[p].state \in {"committed", "rolledback"}
                       \/ /\ tx[p].state = "none"
                          /\ res[p].msg = "failed to begin database transaction"
                    /\ tx[p].state = "committed"
                         => /\ res[p].status = "Ok" \/ res[p].msg = "dispatch failed"
                            /\ IsSome(loc[p].post)
                    /\ (res[p].status = "Ok" /\ req[p].kind = "create")
                         => tx[p].state = "committed")
    /\ [][\A p \in Procs :
            /\ (tx'[p].state = "open" /\ tx[p].state # "open")
                 => (pc[p] \in {"c_begin", "d_begin"} /\ tx[p].state = "none")
            /\ (tx'[p].state = "committed" /\ tx[p].state # "committed")
                 => /\ tx[p].state = "open"
                    /\ \/ /\ pc[p] = "c_attach" /\ pc'[p] = "c_dispatch"
                          /\ loc[p].idx = Len(req[p].body.files)
                          /\ \A i \in DOMAIN req[p].body.files :
                               req[p].body.files[i] \in LocalFileIds
                       \/ pc[p] = "d_commit" /\ pc'[p] = "d_dispatch"
            /\ (tx[p].state \in {"committed", "rolledback"} /\ tx'[p] # tx[p])
                 => (pc[p] = "done" /\ tx'[p].state = "none")]_vars

\* A create ended at a missing file with its transaction rolled back while a
\* delete ended with a dispatch failure and its transaction committed.
C14_Witness ==
    \E p, q \in Procs :
       /\ pc[p] = "done" /\ req[p].kind = "create"
       /\ res[p].msg = "file not found" /\ tx[p].state = "rolledback"
       /\ pc[q] = "done" /\ req[q].kind = "delete"
       /\ res[q].msg = "dispatch failed" /\ tx[q].state = "committed"

\* C15: every post in the store, and every post a transaction is about to
\* store, carries the canonical URI of its own id; no two stored posts share
\* a URI; and the URI of a stored post is the same in every later state in
\* which the post is stored.
C15_CanonicalUri ==
    /\ [](\A r \in posts \cup UNION {tx[p].posts : p \in Procs} :
            r.uri = CanonicalUri(r.id))
    /\ [](\A r, t \in posts : r.uri = t.uri => r = t)
    /\ [][\A r \in posts : \A t \in posts' : t.id = r.id => t.uri = r.uri]_vars

\* Two posts are stored, one of them a reply to the other, and a read has
\* returned the URI of the second.
C15_Witness ==
    \E r, t \in posts :
       /\ r.id # t.id /\ t.reply_id = Some(r.id)
       /\ \E p \in Procs :
            /\ pc[p] = "done" /\ req[p].kind = "get" /\ res[p].status = "Ok"
            /\ Unwrap(res[p].body).uri = t.uri

\* C17: every post a create request inserts or has stored has no owner
\* reference; a successful read returns no user, and no read ends with the
\* internal error of a missing owner.
C17_OwnerAbsent ==
    /\ \A r \in posts \cup UNION {tx[p].posts : p \in Procs} : r.user_id = None
    /\ \A p \in Procs :
         (pc[p] = "done" /\ req[p].kind = "get")
         => /\ res[p].msg # "user not found"
            /\ res[p].status = "Ok" => Unwrap(res[p].body).user = None

\* Two posts are stored and a read of a post returned it without a user.
C17_Witness ==
    \E p \in Procs :
       /\ pc[p] = "done" /\ req[p].kind = "get" /\ res[p].status = "Ok"
       /\ Unwrap(res[p].body).user = None
       /\ Cardinality(posts) = MaxPosts
       /\ \A r \in posts : r.user_id = None

\* C18: for every post at most one delete activity is dispatched, however
\* the delete requests for its id interleave.
C18_OneDeleteActivity ==
    \A id \in PostIds : dispatched["Delete", id] <= 1

\* The handler of p's create request can take its next step.
CreateCanStep(p) ==
    ENABLED (\/ CreateBegin(p) \/ CreateCheckReply(p) \/ CreateInsert(p)
             \/ CreateAttach(p) \/ CreateCommit(p))

\* C16: create requests that reply to one stored post do not wait for or
\* fail because of one another: a create that has not yet committed can
\* always take its next step; its check passes whenever the target is stored
\* (unless the count query fails); once past the check, with all its files
\* existing, it ends committed (unless a storage call fails), with success
\* or a dispatch failure; and each create stores a post of its own with that
\* reply target.
C16_RepliesIndependent ==
    /\ [](\A p \in Procs :
            pc[p] \in {"c_begin", "c_reply", "c_insert", "c_attach"}
            => CreateCanStep(p))
    /\ [][\A p \in Procs :
            (/\ pc[p] = "c_reply" /\ pc'[p] # "c_reply"
             /\ IsSome(req[p].body.reply_id)
             /\ \E r \in posts : r.id = Unwrap(req[p].body.reply_id))
            => \/ pc'[p] = "c_insert"
               \/ res'[p].msg = "failed to request database"]_vars
    /\ [](\A p \in Procs :
            (/\ pc[p] = "done" /\ req[p].kind = "create"
             /\ IsSome(req[p].body.reply_id)
             /\ ~HasMissingFile(req[p].body.files)
             /\ ~StorageFailed(p)
             /\ res[p].msg # "reply target post not found")
            => /\ res[p].status = "Ok" \/ res[p].msg = "dispatch failed"
               /\ tx[p].state = "committed"
               /\ LET id == Unwrap(loc[p].post).id
                  IN /\ hist[id].state \in {"committed", "deleted"}
                     /\ hist[id].state = "committed"
                          => \E r \in posts :
                                r.id = id /\ r.reply_id = req[p].body.reply_id
                     /\ \A q \in Procs \ {p} :
                          (req[q].kind = "create" /\ IsSome(loc[q].post))
                          => Unwrap(loc[q].post).id # id)

\* Two creates replying to the same stored post ran at the same time, both
\* have committed and are at their dispatch, and both replies are stored.
C16_Witness ==
    \E p, q \in Procs :
       /\ p # q
       /\ pc[p] = "c_dispatch" /\ pc[q] = "c_dispatch"
       /\ IsSome(req[p].body.reply_id)
       /\ req[q].body.reply_id = req[p].body.reply_id
       /\ \E t, r1, r2 \in posts :
            /\ Some(t.id) = req[p].body.reply_id
            /\ r1.id = Unwrap(loc[p].post).id /\ r1.reply_id = Some(t.id)
            /\ r2.id = Unwrap(loc[q].post).id /\ r2.reply_id = Some(t.id)
            /\ r1.id # r2.id

\* What a read returns of a post of this create request at any instant at
\* which the post is stored: the request's fields and its files, in order.
ReadsAs(b, c) ==
    /\ b.text = c.text /\ b.title = c.title /\ b.reply_id = c.reply_id
    /\ b.is_sensitive = c.is_sensitive
    /\ [k \in DOMAIN b.files |-> b.files[k].url.id] = c.files

\* C19: a read that returns success returns the post as it was stored at one
\* instant: the post row together with the attachments it has whenever it is
\* stored, which are those of one of the workload's create requests.
C19_NoTornRead ==
    \A p \in Procs :
       (pc[p] = "done" /\ req[p].kind = "get" /\ res[p].status = "Ok")
       => \E c \in Workload.creates : ReadsAs(Unwrap(res[p].body), c)

\* The stored media type and URL of the attachment both parse.
Parsable(r) == r.media_type \in ValidMimeStrings /\ r.url.scheme \in {"http", "https"}

\* C20: the attachment query of a read, when it does not fail, never fails
\* the read: it yields one file for each attachment of the post whose media
\* type and URL parse and none for the others, in ascending stored order;
\* and the read then returns that list with success (unless the reaction
\* query fails).
C20_UnparsableFileOmitted ==
    /\ [][\A p \in Procs :
            (pc[p] = "g_files" /\ pc'[p] # "g_files"
             /\ res'[p].msg # "failed to query database")
            => /\ pc'[p] = "g_reactions"
               /\ LET rows == {r \in remote_files : r.post_id = Unwrap(loc[p].post).id}
                      files == loc'[p].files
                  IN /\ Len(files) = Cardinality({r \in rows : Parsable(r)})
                     /\ Len(files) <= Cardinality(rows)
                     /\ \A k \in DOMAIN files :
                          \E r \in rows :
                             /\ Parsable(r)
                             /\ files[k] = [media_type |-> r.media_type,
                                            url |-> r.url, alt |-> r.alt]
                             /\ Cardinality({x \in rows :
                                   Parsable(x) /\ x.order < r.order}) = k - 1]_vars
    /\ [][\A p \in Procs :
            (pc[p] = "g_reactions" /\ pc'[p] = "done"
             /\ res'[p].msg # "failed to query database")
            => /\ res'[p].status = "Ok"
               /\ Unwrap(res'[p].body).files = loc[p].files]_vars

\* A read of a stored post with three attachments, the second with a media
\* type that does not parse, returned the first and the third.
C20_Witness ==
    \E p \in Procs :
       /\ pc[p] = "done" /\ req[p].kind = "get" /\ res[p].status = "Ok"
       /\ hist[req[p].id].state = "committed"
       /\ Cardinality({r \in remote_files : r.post_id = req[p].id}) = 3
       /\ \E r \in remote_files :
            r.post_id = req[p].id /\ r.order = 1 /\ ~Parsable(r)
       /\ LET files == Unwrap(res[p].body).files
          IN /\ Len(files) = 2
             /\ files[1].url.id = 2 /\ files[2].url.id = 1

====
